---- MODULE Spec2Model ----
(***************************************************************************)
(* PGraphics.encode_rle / PGraphics.decode_rle of SUPer/pgraphics.py: the  *)
(* run-length codec of PGS object data ('US 7912305 B1').                  *)
(*                                                                         *)
(* A bitmap is a numpy array: a shape and its row-major data.  The data is *)
(* held as the sequence of its maximal runs <<value, count>>, which is one *)
(* value per array (Canon); the code's _fp[j] is Fp(j), the pixel at the   *)
(* 0-based flat index j.  Byte strings and decoded rows are sequences of   *)
(* integers.  Python ints are unbounded, so no operation wraps.            *)
(***************************************************************************)
EXTENDS Integers, Sequences, FiniteSets, TLC

VARIABLES
  bitmap,           \* argument of encode_rle: [shape, runs], or NoBitmap
  pc,               \* position of the calling script
  calls,            \* number of encode_rle calls started so far
  enc_ret,          \* what each finished encode_rle call returned or raised
  shape,            \* _bitmap.shape (after np.squeeze)
  i,                \* encode_rle: scan position
  k,                \* encode_rle: the for-loop variable
  insert_line_end,  \* encode_rle: flag
  rle_data,         \* encode_rle: the bytearray being built
  dec_arg,          \* decode_rle: the rle_data argument as passed
  o_id,             \* decode_rle: the o_id argument (None or an int)
  dec_data,         \* decode_rle: rle_data after lines 94-101 (bytes)
  pos,              \* decode_rle: number of bytes the for loop has consumed
  decoder_state,    \* decode_rle: RLEDecoderState
  tmp,              \* decode_rle: accumulator
  line_l,           \* decode_rle: current row
  plane2d,          \* decode_rle: closed rows
  dec_ret           \* what decode_rle returned or raised

vars == <<bitmap, pc, calls, enc_ret, shape, i, k, insert_line_end, rle_data,
          dec_arg, o_id, dec_data, pos, decoder_state, tmp, line_l, plane2d,
          dec_ret>>

encVars == <<shape, i, k, insert_line_end, rle_data>>
decVars == <<dec_arg, o_id, dec_data, pos, decoder_state, tmp, line_l, plane2d,
             dec_ret>>

None == -1   \* o_id = None: object ids are non-negative, None is the int -1 here
NoBitmap == [shape |-> <<>>, runs |-> <<>>]

-----------------------------------------------------------------------------
(* Bounds of the model and program constants.                              *)

MaxH == 2         \* rows of a generated bitmap
MaxW == 2         \* columns of an exhaustively generated bitmap
MaxBytes == 5     \* bytes of a raw stream handed to decode_rle
MaxWide == 4      \* bytes of a raw stream of long-run codes
MaxRecs == 3      \* segment records handed to decode_rle

RunStop == 16384        \* range(1, 16384)
LiteralStop == 3        \* if k < 3
ColorShortMax == 63     \* elif k <= 63
TspShortMax == 63       \* if k <= 63

-----------------------------------------------------------------------------
(* Integer helpers: Python's |, & on non-negative ints.                    *)

RECURSIVE BitOr(_, _)
BitOr(a, b) ==
  IF a = 0 THEN b
  ELSE IF b = 0 THEN a
  ELSE (IF a % 2 = 1 \/ b % 2 = 1 THEN 1 ELSE 0) + 2 * BitOr(a \div 2, b \div 2)

RECURSIVE BitAnd(_, _)
BitAnd(a, b) ==
  IF a = 0 \/ b = 0 THEN 0
  ELSE (IF a % 2 = 1 /\ b % 2 = 1 THEN 1 ELSE 0) + 2 * BitAnd(a \div 2, b \div 2)

Shr(a, n) == a \div (2 ^ n)
Shl(a, n) == a * (2 ^ n)

Repeat(v, n) == [j \in 1..n |-> v]

-----------------------------------------------------------------------------
(* encode_rle                                                              *)

\* np.squeeze: every axis of length 1 is removed
Squeeze(shp) == SelectSeq(shp, LAMBDA d : d # 1)

\* the array data with adjacent runs of one value merged and empty runs dropped
RECURSIVE Canon(_)
Canon(rs) ==
  IF rs = <<>> THEN <<>>
  ELSE LET h == Head(rs)
           rest == Canon(Tail(rs))
       IN  IF h[2] = 0 THEN rest
           ELSE IF rest # <<>> /\ rest[1][1] = h[1]
           THEN <<<<h[1], h[2] + rest[1][2]>>>> \o Tail(rest)
           ELSE <<h>> \o rest

\* the pixel at 0-based flat index j of array data rs, from its r-th run on
RECURSIVE PixelFrom(_, _, _)
PixelFrom(rs, r, j) ==
  IF j < rs[r][2] THEN rs[r][1] ELSE PixelFrom(rs, r + 1, j - rs[r][2])

RECURSIVE SizeFrom(_, _)
SizeFrom(rs, r) == IF r > Len(rs) THEN 0 ELSE rs[r][2] + SizeFrom(rs, r + 1)

\* np.ravel(_bitmap): _fp[j] and _fp.size
Fp(j) == PixelFrom(bitmap.runs, 1, j)
FpSize == SizeFrom(bitmap.runs, 1)

\* mutant: only the end of the flattened buffer stops a run
AtRowEnd_BufferEnd(k0) == i + k0 >= FpSize

\* the two tests of the for loop's body at k, in the code's order: the row
\* boundary test first, the pixel comparison only when it fails
AtRowEnd(k0) == (i % shape[2]) + k0 >= shape[2]
Breaks(k0) == AtRowEnd(k0) \/ Fp(i + k0) # Fp(i)

\* for k in range(lo, hi + 1): the first k at which the body breaks, 0 when
\* the loop runs to its end.  The range is walked in increasing order (left
\* half before right half), no k after the break is evaluated.
RECURSIVE FirstBreak(_, _)
FirstBreak(lo, hi) ==
  IF lo = hi THEN (IF Breaks(lo) THEN lo ELSE 0)
  ELSE LET mid == (lo + hi) \div 2
           l == FirstBreak(lo, mid)
       IN  IF l # 0 THEN l ELSE FirstBreak(mid + 1, hi)

\* mutant: range(1, 16385), one pass too many
ForK_RunsOn ==
  LET b == FirstBreak(1, RunStop)
  IN  IF b = 0 THEN [k |-> RunStop, line_end |-> insert_line_end]
      ELSE [k |-> b, line_end |-> (AtRowEnd(b) \/ insert_line_end)]

\* the for loop: the value k is left with, and whether insert_line_end is set
ForK ==
  LET b == FirstBreak(1, RunStop - 1)
  IN  IF b = 0 THEN [k |-> RunStop - 1, line_end |-> insert_line_end]
      ELSE [k |-> b, line_end |-> (AtRowEnd(b) \/ insert_line_end)]

\* mutant: the short forms taken up to 127 pixels, as if the length had 7 bits
RunCode_WideShort(v, n) ==
  IF v # 0
  THEN IF n < LiteralStop THEN Repeat(v, n)
       ELSE IF n <= 127 THEN <<0, BitOr(128, n), v>>
       ELSE <<0, BitOr(192, Shr(n, 8)), BitAnd(n, 255), v>>
  ELSE IF n <= 127 THEN <<0, n>>
       ELSE <<0, BitOr(64, Shr(n, 8)), BitAnd(n, 255)>>

\* mutant: if k < 2, only single pixels are literal
RunCode_NoLiteral(v, n) ==
  IF v # 0
  THEN IF n < 2 THEN Repeat(v, n)
       ELSE IF n <= ColorShortMax THEN <<0, BitOr(128, n), v>>
       ELSE <<0, BitOr(192, Shr(n, 8)), BitAnd(n, 255), v>>
  ELSE IF n <= TspShortMax THEN <<0, n>>
       ELSE <<0, BitOr(64, Shr(n, 8)), BitAnd(n, 255)>>

\* mutant: the long forms' high bits taken as k >> 6
RunCode_Shift6(v, n) ==
  IF v # 0
  THEN IF n < LiteralStop THEN Repeat(v, n)
       ELSE IF n <= ColorShortMax THEN <<0, BitOr(128, n), v>>
       ELSE <<0, BitOr(192, Shr(n, 6)), BitAnd(n, 255), v>>
  ELSE IF n <= TspShortMax THEN <<0, n>>
       ELSE <<0, BitOr(64, Shr(n, 6)), BitAnd(n, 255)>>

\* the bytes of one run of n pixels of value v
RunCode(v, n) ==
  IF v # 0
  THEN IF n < LiteralStop THEN Repeat(v, n)
       ELSE IF n <= ColorShortMax THEN <<0, BitOr(128, n), v>>
       ELSE <<0, BitOr(192, Shr(n, 8)), BitAnd(n, 255), v>>
  ELSE IF n <= TspShortMax THEN <<0, n>>
       ELSE <<0, BitOr(64, Shr(n, 8)), BitAnd(n, 255)>>

LineEnd == <<0, 0>>

\* bytearray(list) raises ValueError unless every item is in range(256)
IsBytes(s) == \A j \in 1..Len(s) : s[j] \in 0..255

\* mutant: the output buffer outlives the call
EncodeCall_KeepsBuffer ==
  /\ pc = "enc_call"
  /\ shape' = Squeeze(bitmap.shape)
  /\ i' = 0
  /\ insert_line_end' = FALSE
  /\ calls' = calls + 1
  /\ pc' = "enc_loop"
  /\ UNCHANGED <<bitmap, enc_ret, k, rle_data>>
  /\ UNCHANGED decVars

\* how a call ended: bytes(rle_data) returned, or an exception raised
Returned(b) == [kind |-> "bytes", bytes |-> b]
Raised(e) == [kind |-> e, bytes |-> <<>>]

\* lines 43-48
EncodeCall ==
  /\ pc = "enc_call"
  /\ rle_data' = <<>>
  /\ shape' = Squeeze(bitmap.shape)
  /\ i' = 0
  /\ insert_line_end' = FALSE
  /\ calls' = calls + 1
  /\ pc' = "enc_loop"
  /\ UNCHANGED <<bitmap, enc_ret, k>>
  /\ UNCHANGED decVars

\* one pass of the while loop, lines 50-75
EncodeIter ==
  /\ pc = "enc_loop"
  /\ i < FpSize
  /\ IF Len(shape) < 2
     THEN \* _bitmap.shape[1]: IndexError, raised at k = 1
          /\ k' = 1
          /\ enc_ret' = Append(enc_ret, Raised("IndexError"))
          /\ pc' = "enc_raised"
          /\ UNCHANGED <<i, insert_line_end, rle_data>>
     ELSE LET f == ForK
              code == RunCode(Fp(i), f.k)
          IN  /\ k' = f.k
              /\ IF IsBytes(code)
                 THEN /\ rle_data' = rle_data \o code
                                       \o (IF f.line_end THEN LineEnd ELSE <<>>)
                      /\ insert_line_end' = FALSE
                      /\ i' = i + f.k
                      /\ pc' = "enc_loop"
                      /\ UNCHANGED enc_ret
                 ELSE /\ enc_ret' = Append(enc_ret, Raised("ValueError"))
                      /\ insert_line_end' = f.line_end
                      /\ pc' = "enc_raised"
                      /\ UNCHANGED <<i, rle_data>>
  /\ UNCHANGED <<bitmap, calls, shape>>
  /\ UNCHANGED decVars

\* line 76
EncodeReturn ==
  /\ pc = "enc_loop"
  /\ ~(i < FpSize)
  /\ enc_ret' = Append(enc_ret, Returned(rle_data))
  /\ pc' = "enc_done"
  /\ UNCHANGED <<bitmap, calls>>
  /\ UNCHANGED encVars
  /\ UNCHANGED decVars

\* the caller encodes the same bitmap a second time
EncodeAgain ==
  /\ pc \in {"enc_done", "enc_raised"}
  /\ calls = 1
  /\ pc' = "enc_call"
  /\ UNCHANGED <<bitmap, calls, enc_ret>>
  /\ UNCHANGED encVars
  /\ UNCHANGED decVars

-----------------------------------------------------------------------------
(* decode_rle                                                              *)

\* b''.join(...) of a list of byte strings
RECURSIVE Join(_)
Join(ss) == IF ss = <<>> THEN <<>> ELSE Head(ss) \o Join(Tail(ss))

DataOf(recs) == [j \in 1..Len(recs) |-> recs[j].data]

\* mutant: "if o_id:", which takes the object id 0 for no id
ToBytes_Truthy(arg, oid) ==
  LET l == IF arg.kind = "ods" THEN <<arg.ods>>
           ELSE IF arg.kind = "list" THEN arg.list ELSE <<>>
  IN  IF arg.kind \in {"ods", "list"}
      THEN IF oid # None /\ oid # 0
           THEN Join(DataOf(SelectSeq(l, LAMBDA x : oid = x.o_id)))
           ELSE Join(DataOf(l))
      ELSE arg.bytes

\* mutant: the o_id filter applied without the "is not None" test
ToBytes_AlwaysFilter(arg, oid) ==
  LET l == IF arg.kind = "ods" THEN <<arg.ods>>
           ELSE IF arg.kind = "list" THEN arg.list ELSE <<>>
  IN  IF arg.kind \in {"ods", "list"}
      THEN Join(DataOf(SelectSeq(l, LAMBDA x : oid = x.o_id)))
      ELSE arg.bytes

\* lines 94-101: the byte string the for loop iterates over
ToBytes(arg, oid) ==
  LET l == IF arg.kind = "ods" THEN <<arg.ods>>
           ELSE IF arg.kind = "list" THEN arg.list ELSE <<>>
  IN  IF arg.kind \in {"ods", "list"}
      THEN IF oid # None
           THEN Join(DataOf(SelectSeq(l, LAMBDA x : oid = x.o_id)))
           ELSE Join(DataOf(l))
      ELSE arg.bytes

\* RLEDecoderState(byte >> 6)
StateOfValue(n) ==
  CASE n = 0 -> "SMALL_TSP"
    [] n = 1 -> "LARGE_TSP"
    [] n = 2 -> "SMALL_CCO"
    [] n = 3 -> "LARGE_CCO"

\* lines 103-105
DecoderStart ==
  [decoder_state |-> "NEW_CODE", tmp |-> 0, line_l |-> <<>>, plane2d |-> <<>>]

\* mutant: plane2d.insert(0, line_l), the closed row put first
DecodeStep_Prepends(d, byte) ==
  CASE d.decoder_state = "NEW_CODE" ->
         IF byte > 0
         THEN [d EXCEPT !.line_l = Append(d.line_l, byte)]
         ELSE [d EXCEPT !.decoder_state = "NEED_MORE"]
    [] d.decoder_state = "NEED_MORE" ->
         IF byte = 0
         THEN [d EXCEPT !.plane2d = <<d.line_l>> \o d.plane2d,
                        !.line_l = <<>>,
                        !.decoder_state = "NEW_CODE"]
         ELSE LET st == StateOfValue(Shr(byte, 6))
                  t == BitAnd(byte, 63)
              IN  IF st = "SMALL_TSP"
                  THEN [d EXCEPT !.tmp = t,
                                 !.line_l = d.line_l \o Repeat(0, t),
                                 !.decoder_state = "NEW_CODE"]
                  ELSE [d EXCEPT !.tmp = t, !.decoder_state = st]
    [] d.decoder_state = "LARGE_TSP" ->
         LET t == Shl(d.tmp, 8) + byte
         IN  [d EXCEPT !.tmp = t,
                       !.line_l = d.line_l \o Repeat(0, t),
                       !.decoder_state = "NEW_CODE"]
    [] d.decoder_state = "SMALL_CCO" ->
         [d EXCEPT !.line_l = d.line_l \o Repeat(byte, d.tmp),
                   !.decoder_state = "NEW_CODE"]
    [] d.decoder_state = "LARGE_CCO" ->
         IF d.tmp >= 0
         THEN [d EXCEPT !.tmp = (Shl(d.tmp, 8) + byte) * (-1)]
         ELSE [d EXCEPT !.line_l = d.line_l \o Repeat(byte, (-1) * d.tmp),
                        !.decoder_state = "NEW_CODE"]

\* mutant: tmp = byte in NEED_MORE, the & 0x3F mask left out
DecodeStep_NoMask(d, byte) ==
  CASE d.decoder_state = "NEW_CODE" ->
         IF byte > 0
         THEN [d EXCEPT !.line_l = Append(d.line_l, byte)]
         ELSE [d EXCEPT !.decoder_state = "NEED_MORE"]
    [] d.decoder_state = "NEED_MORE" ->
         IF byte = 0
         THEN [d EXCEPT !.plane2d = Append(d.plane2d, d.line_l),
                        !.line_l = <<>>,
                        !.decoder_state = "NEW_CODE"]
         ELSE LET st == StateOfValue(Shr(byte, 6))
                  t == byte
              IN  IF st = "SMALL_TSP"
                  THEN [d EXCEPT !.tmp = t,
                                 !.line_l = d.line_l \o Repeat(0, t),
                                 !.decoder_state = "NEW_CODE"]
                  ELSE [d EXCEPT !.tmp = t, !.decoder_state = st]
    [] d.decoder_state = "LARGE_TSP" ->
         LET t == Shl(d.tmp, 8) + byte
         IN  [d EXCEPT !.tmp = t,
                       !.line_l = d.line_l \o Repeat(0, t),
                       !.decoder_state = "NEW_CODE"]
    [] d.decoder_state = "SMALL_CCO" ->
         [d EXCEPT !.line_l = d.line_l \o Repeat(byte, d.tmp),
                   !.decoder_state = "NEW_CODE"]
    [] d.decoder_state = "LARGE_CCO" ->
         IF d.tmp >= 0
         THEN [d EXCEPT !.tmp = (Shl(d.tmp, 8) + byte) * (-1)]
         ELSE [d EXCEPT !.line_l = d.line_l \o Repeat(byte, (-1) * d.tmp),
                        !.decoder_state = "NEW_CODE"]

\* the body of the for loop for one byte, lines 109-144
DecodeStep(d, byte) ==
  CASE d.decoder_state = "NEW_CODE" ->
         IF byte > 0
         THEN [d EXCEPT !.line_l = Append(d.line_l, byte)]
         ELSE [d EXCEPT !.decoder_state = "NEED_MORE"]
    [] d.decoder_state = "NEED_MORE" ->
         IF byte = 0
         THEN [d EXCEPT !.plane2d = Append(d.plane2d, d.line_l),
                        !.line_l = <<>>,
                        !.decoder_state = "NEW_CODE"]
         ELSE LET st == StateOfValue(Shr(byte, 6))
                  t == BitAnd(byte, 63)
              IN  IF st = "SMALL_TSP"
                  THEN [d EXCEPT !.tmp = t,
                                 !.line_l = d.line_l \o Repeat(0, t),
                                 !.decoder_state = "NEW_CODE"]
                  ELSE [d EXCEPT !.tmp = t, !.decoder_state = st]
    [] d.decoder_state = "LARGE_TSP" ->
         LET t == Shl(d.tmp, 8) + byte
         IN  [d EXCEPT !.tmp = t,
                       !.line_l = d.line_l \o Repeat(0, t),
                       !.decoder_state = "NEW_CODE"]
    [] d.decoder_state = "SMALL_CCO" ->
         [d EXCEPT !.line_l = d.line_l \o Repeat(byte, d.tmp),
                   !.decoder_state = "NEW_CODE"]
    [] d.decoder_state = "LARGE_CCO" ->
         IF d.tmp >= 0
         THEN [d EXCEPT !.tmp = (Shl(d.tmp, 8) + byte) * (-1)]
         ELSE [d EXCEPT !.line_l = d.line_l \o Repeat(byte, (-1) * d.tmp),
                        !.decoder_state = "NEW_CODE"]

Decoder ==
  [decoder_state |-> decoder_state, tmp |-> tmp, line_l |-> line_l,
   plane2d |-> plane2d]

\* np.asarray(plane2d), line 145.  Rows of one length give a 2-D array (no
\* row at all: an empty 1-D array).  Rows of differing lengths: numpy >= 1.24
\* raises ValueError, older numpy builds a 1-D array of list objects; the
\* source pins no numpy version, so both are outcomes.
Rectangular(rows) == \A r \in 1..Len(rows) : Len(rows[r]) = Len(rows[1])

AsArray(rows) ==
  IF rows = <<>> THEN {[kind |-> "array", shape |-> <<0>>, rows |-> rows]}
  ELSE IF Rectangular(rows)
  THEN {[kind |-> "array", shape |-> <<Len(rows), Len(rows[1])>>, rows |-> rows]}
  ELSE {[kind |-> "ValueError", shape |-> <<>>, rows |-> <<>>],
        [kind |-> "object_array", shape |-> <<Len(rows)>>, rows |-> rows]}

\* decode_rle(encode_rle(bitmap)): the caller hands the returned bytes on
DecodeEncoded ==
  /\ pc = "enc_done"
  /\ calls = 1
  /\ dec_arg' = [kind |-> "bytes", bytes |-> enc_ret[Len(enc_ret)].bytes]
  /\ o_id' = None
  /\ pc' = "dec_call"
  /\ UNCHANGED <<bitmap, calls, enc_ret>>
  /\ UNCHANGED encVars
  /\ UNCHANGED <<dec_data, pos, decoder_state, tmp, line_l, plane2d, dec_ret>>

\* lines 94-105
DecodeCall ==
  /\ pc = "dec_call"
  /\ dec_data' = ToBytes(dec_arg, o_id)
  /\ pos' = 0
  /\ decoder_state' = DecoderStart.decoder_state
  /\ tmp' = DecoderStart.tmp
  /\ line_l' = DecoderStart.line_l
  /\ plane2d' = DecoderStart.plane2d
  /\ pc' = "dec_loop"
  /\ UNCHANGED <<bitmap, calls, enc_ret, dec_arg, o_id, dec_ret>>
  /\ UNCHANGED encVars

\* one pass of the for loop, lines 108-144
DecodeByte ==
  /\ pc = "dec_loop"
  /\ pos < Len(dec_data)
  /\ LET d == DecodeStep(Decoder, dec_data[pos + 1])
     IN  /\ decoder_state' = d.decoder_state
         /\ tmp' = d.tmp
         /\ line_l' = d.line_l
         /\ plane2d' = d.plane2d
  /\ pos' = pos + 1
  /\ UNCHANGED <<bitmap, pc, calls, enc_ret, dec_arg, o_id, dec_data, dec_ret>>
  /\ UNCHANGED encVars

\* line 145
DecodeReturn ==
  /\ pc = "dec_loop"
  /\ pos = Len(dec_data)
  /\ \E a \in AsArray(plane2d) : dec_ret' = a
  /\ pc' = "dec_done"
  /\ UNCHANGED <<bitmap, calls, enc_ret, dec_arg, o_id, dec_data, pos,
                 decoder_state, tmp, line_l, plane2d>>
  /\ UNCHANGED encVars

-----------------------------------------------------------------------------
(* Inputs.                                                                 *)

SmallVals == {0, 5}
Vals == {0, 5, 9}
RunLens == {1, 2, 3, 63, 64, 70, 300}
TailLens == {0, 1, 3, 64}
LongLens == {16383}
LongTailLens == {0, 1}

\* every h x w bitmap over SmallVals, h <= MaxH, w <= MaxW
SmallBitmaps ==
  UNION { { [shape |-> <<hw[1], hw[2]>>,
             runs |-> Canon([j \in 1..(hw[1] * hw[2]) |-> <<d[j], 1>>])] :
              d \in [1..(hw[1] * hw[2]) -> SmallVals] } :
          hw \in (1..MaxH) \X (1..MaxW) }

\* h equal rows, each a run of n1 pixels of a followed by n2 pixels of b
RunBitmap(h, a, n1, b, n2) ==
  LET row == <<<<a, n1>>, <<b, n2>>>>
  IN  [shape |-> <<h, n1 + n2>>, runs |-> Canon(Join(Repeat(row, h)))]

RunBitmaps ==
  { RunBitmap(h, a, n1, b, n2) :
      h \in 1..MaxH, a \in Vals, n1 \in RunLens, b \in Vals, n2 \in TailLens }

\* the same with a first run as long as one code can hold
LongBitmaps ==
  { RunBitmap(h, a, n1, b, n2) :
      h \in 1..MaxH, a \in SmallVals, n1 \in LongLens, b \in SmallVals,
      n2 \in LongTailLens }

Bitmaps == SmallBitmaps \cup RunBitmaps \cup LongBitmaps

ByteAlphabet == {0, 5, 64, 131, 192}
WideAlphabet == {0, 127, 255}
RecIds == {0, 1, 2}
Chunks == {<<0>>, <<5, 0>>}

RECURSIVE SeqsUpTo(_, _)
SeqsUpTo(S, n) ==
  IF n = 0 THEN {<<>>}
  ELSE LET shorter == SeqsUpTo(S, n - 1)
       IN  shorter \cup { Append(s, x) : s \in { t \in shorter : Len(t) = n - 1 }, x \in S }

Records == { [o_id |-> n, data |-> c] : n \in RecIds, c \in Chunks }

\* byte strings: every string over ByteAlphabet, and the strings over the bytes
\* that carry the largest length fields
Streams == SeqsUpTo(ByteAlphabet, MaxBytes) \cup SeqsUpTo(WideAlphabet, MaxWide)

DecodeArgs ==
  { <<[kind |-> "bytes", bytes |-> s], None>> : s \in Streams }
  \cup { <<[kind |-> "ods", ods |-> r], o>> : r \in Records, o \in {None} \cup RecIds }
  \cup { <<[kind |-> "list", list |-> l], o>> :
           l \in SeqsUpTo(Records, MaxRecs), o \in {None} \cup RecIds }

NoArg == [kind |-> "bytes", bytes |-> <<>>]
NoArray == [kind |-> "none", shape |-> <<>>, rows |-> <<>>]

InitLocals ==
  /\ calls = 0
  /\ enc_ret = <<>>
  /\ shape = <<>>
  /\ i = 0
  /\ k = 0
  /\ insert_line_end = FALSE
  /\ rle_data = <<>>
  /\ dec_data = <<>>
  /\ pos = 0
  /\ decoder_state = "NEW_CODE"
  /\ tmp = 0
  /\ line_l = <<>>
  /\ plane2d = <<>>
  /\ dec_ret = NoArray

\* a script that encodes a bitmap, then encodes it again or decodes the result
InitCodec ==
  /\ bitmap \in Bitmaps
  /\ pc = "enc_call"
  /\ dec_arg = NoArg
  /\ o_id = None
  /\ InitLocals

\* a script that calls decode_rle on bytes, a segment or a list of segments
InitDecode ==
  /\ bitmap = NoBitmap
  /\ pc = "dec_call"
  /\ \E a \in DecodeArgs : dec_arg = a[1] /\ o_id = a[2]
  /\ InitLocals

Init == InitCodec \/ InitDecode

NextCodec ==
  \/ EncodeCall
  \/ EncodeIter
  \/ EncodeReturn
  \/ EncodeAgain
  \/ DecodeEncoded
  \/ DecodeCall
  \/ DecodeByte
  \/ DecodeReturn

NextDecode ==
  \/ DecodeCall
  \/ DecodeByte
  \/ DecodeReturn

Next == NextCodec

SpecCodec == InitCodec /\ [][NextCodec]_vars
SpecDecode == InitDecode /\ [][NextDecode]_vars
Spec == Init /\ [][Next]_vars

-----------------------------------------------------------------------------
(* Vocabulary of the properties.                                           *)

Height == bitmap.shape[1]
Width == bitmap.shape[2]

\* row r of the bitmap, r in 1..Height
BitmapRow(r) == [c \in 1..Width |-> Fp((r - 1) * Width + c - 1)]
BitmapRows == [r \in 1..Height |-> BitmapRow(r)]

Uniform(h, w, v) == [shape |-> <<h, w>>, runs |-> <<<<v, h * w>>>>]

\* the outcome of the last encode_rle call that ended
LastEnc == enc_ret[Len(enc_ret)]

\* decode_rle's automaton run over a whole byte string, from its start state
RECURSIVE DecodeFrom(_, _, _)
DecodeFrom(d, bytes, j) ==
  IF j > Len(bytes) THEN d ELSE DecodeFrom(DecodeStep(d, bytes[j]), bytes, j + 1)

DecodeAll(bytes) == DecodeFrom(DecoderStart, bytes, 1)

-----------------------------------------------------------------------------
(* C1: round trip.  For every bitmap with height >= 1, 1 <= width <= 16383 *)
(* and pixels in 0..255, single-row and single-column bitmaps included,    *)
(* encode_rle returns (raises nothing) and decode_rle of the returned      *)
(* bytes returns an array of the bitmap's rows.                            *)
C1_RoundTrip ==
  (Height >= 1 /\ Width >= 1 /\ Width <= 16383)
    => /\ pc # "enc_raised"
       /\ pc = "dec_done" => dec_ret.kind = "array" /\ dec_ret.rows = BitmapRows

(* C2 as stated: a bitmap whose row width exceeds 16383 never gets an      *)
(* encoded stream back from encode_rle.                                    *)
C2_WideRejected ==
  Width > 16383 => \A c \in 1..Len(enc_ret) : enc_ret[c].kind # "bytes"

(* C2, amended: encode_rle tests no width.  On a bitmap of two or more     *)
(* rows wider than 16383 it raises nothing, every run it emits covers at   *)
(* most 16383 pixels, and decode_rle of the returned stream gives back the *)
(* bitmap's rows; the only exception a wider bitmap can meet is the        *)
(* IndexError of a single-row bitmap.                                      *)
C2_WideEncoded ==
  Width > 16383
    => /\ pc = "enc_raised" => Height = 1 /\ LastEnc.kind = "IndexError"
       /\ k <= 16383
       /\ pc = "enc_done" => LastEnc.kind = "bytes"
       /\ pc = "dec_done" => dec_ret.kind = "array" /\ dec_ret.rows = BitmapRows

C2_Witness ==
  /\ Width > 16383
  /\ Height >= 2
  /\ pc = "dec_done"
  /\ dec_ret.rows = BitmapRows

C4_OneRowOf4 ==
  bitmap = Uniform(1, 4, 0)
    => /\ pc # "enc_raised"
       /\ pc = "enc_done" => LastEnc.bytes = <<0, 4, 0, 0>>
       /\ pc = "dec_done" => dec_ret.rows = <<<<0, 0, 0, 0>>>>

-----------------------------------------------------------------------------
\* a pass of encode_rle's while loop that emitted a run, and what it appended
RunEmitted == pc = "enc_loop" /\ pc' = "enc_loop" /\ i' > i
Appended == SubSeq(rle_data', Len(rle_data) + 1, Len(rle_data'))

\* a pass of decode_rle's for loop, and the byte it read
ByteRead == pc = "dec_loop" /\ pos' = pos + 1
Byte == dec_data[pos + 1]

(* C5: the run-length form boundary.  A run of exactly 63 pixels of a      *)
(* non-zero value v is emitted as 00, 80|63, v and one of exactly 64 as    *)
(* 00, C0|(64>>8), 64&FF, v; a run of exactly 63 pixels 0 is emitted as    *)
(* 00, 63 and one of exactly 64 as 00, 40|(64>>8), 64&FF (each followed by *)
(* the end-of-line marker when the run ends its row, by nothing else).     *)
C5_FormBoundary ==
  [][RunEmitted =>
       LET v == Fp(i)
           n == i' - i
       IN  /\ (v # 0 /\ n = 63) => Appended \in {<<0, 191, v>>, <<0, 191, v, 0, 0>>}
           /\ (v # 0 /\ n = 64) => Appended \in {<<0, 192, 64, v>>, <<0, 192, 64, v, 0, 0>>}
           /\ (v = 0 /\ n = 63) => Appended \in {<<0, 63>>, <<0, 63, 0, 0>>}
           /\ (v = 0 /\ n = 64) => Appended \in {<<0, 64, 64>>, <<0, 64, 64, 0, 0>>}]_vars

\* rows of 63 pixels of 5 then 64 pixels of 0: both forms in one stream
C5_Witness ==
  /\ bitmap = RunBitmap(2, 5, 63, 0, 64)
  /\ pc = "enc_done"
  /\ LastEnc.bytes = <<0, 191, 5, 0, 64, 64, 0, 0, 0, 191, 5, 0, 64, 64, 0, 0>>

C7_LiteralShortcut ==
  [][/\ RunEmitted =>
          LET v == Fp(i)
              n == i' - i
          IN  /\ (v # 0 /\ n = 1) => Appended \in {<<v>>, <<v, 0, 0>>}
              /\ (v # 0 /\ n = 2) => Appended \in {<<v, v>>, <<v, v, 0, 0>>}
     /\ (ByteRead /\ decoder_state = "NEW_CODE" /\ Byte > 0) =>
          /\ line_l' = Append(line_l, Byte)
          /\ decoder_state' = "NEW_CODE"
          /\ plane2d' = plane2d]_vars

\* the decoder has read the two literal bytes of an encoded run of length 2
C7_Witness ==
  /\ calls = 1
  /\ pc = "dec_loop"
  /\ pos = 2
  /\ Width >= 3
  /\ Fp(0) # 0
  /\ Fp(1) = Fp(0)
  /\ Fp(2) # Fp(0)
  /\ dec_data[1] = Fp(0)
  /\ dec_data[2] = Fp(0)
  /\ line_l = <<Fp(0), Fp(0)>>
  /\ decoder_state = "NEW_CODE"

\* the data of the records whose o_id is oid, one after the other in list order
RECURSIVE MatchingBytes(_, _)
MatchingBytes(recs, oid) ==
  IF recs = <<>> THEN <<>>
  ELSE (IF Head(recs).o_id = oid THEN Head(recs).data ELSE <<>>)
         \o MatchingBytes(Tail(recs), oid)

(* C8: filtered multi-segment decode.  decode_rle(records, o_id) with an   *)
(* object id (0 included) iterates over the bytes of exactly the records   *)
(* with that o_id, concatenated in list order, and returns what decoding   *)
(* that concatenation directly returns.                                    *)
C8_FilteredDecode ==
  (dec_arg.kind = "list" /\ o_id # None /\ pc \in {"dec_loop", "dec_done"})
    => /\ dec_data = MatchingBytes(dec_arg.list, o_id)
       /\ pc = "dec_done"
            => dec_ret \in AsArray(DecodeAll(MatchingBytes(dec_arg.list, o_id)).plane2d)

\* [(1, X), (2, Y), (1, Z)] with o_id = 1: X || Z = 00 00 is one empty row,
\* X || Y || Z would be one row of five pixels
C8_Witness ==
  /\ dec_arg.kind = "list"
  /\ dec_arg.list = <<[o_id |-> 1, data |-> <<0>>], [o_id |-> 2, data |-> <<5, 0>>],
                      [o_id |-> 1, data |-> <<0>>]>>
  /\ o_id = 1
  /\ pc = "dec_done"
  /\ dec_data = <<0, 0>>
  /\ dec_ret.rows = << <<>> >>

(* C9: encoder determinism.  A second encode_rle call on the same bitmap   *)
(* ends as the first did: the same bytes returned (or the same exception). *)
C9_Deterministic ==
  Len(enc_ret) = 2 => enc_ret[1] = enc_ret[2]

C9_Witness ==
  /\ Len(enc_ret) = 2
  /\ enc_ret[2].kind = "bytes"
  /\ Len(enc_ret[2].bytes) > 4

(* C10: a long-color code consumes exactly two more bytes.  When the byte  *)
(* read in NEED_MORE has its top two bits set, then for every value of the *)
(* next two bytes the decoder is back in NEW_CODE after them and has       *)
(* appended ((byte & 3F) << 8) + first many pixels of the second's value.  *)
C10_LongColorTwoBytes ==
  (pc = "dec_loop" /\ pos >= 3)
    => LET before == DecodeAll(SubSeq(dec_data, 1, pos - 3))
           b == dec_data[pos - 2]
           lo == dec_data[pos - 1]
           c == dec_data[pos]
       IN  (before.decoder_state = "NEED_MORE" /\ b >= 192)
             => /\ decoder_state = "NEW_CODE"
                /\ line_l = before.line_l \o Repeat(c, (b - 192) * 256 + lo)
                /\ plane2d = before.plane2d

-----------------------------------------------------------------------------
\* the data of records j.. of a list, one after the other
RECURSIVE DataFrom(_, _)
DataFrom(recs, j) ==
  IF j > Len(recs) THEN <<>> ELSE recs[j].data \o DataFrom(recs, j + 1)

(* C11: unfiltered multi-record decode is one continuous stream.           *)
(* decode_rle(records) with no object id iterates over the data of all the *)
(* records in list order; after every byte the automaton (state, tmp, row  *)
(* buffer, closed rows) is what the unsplit concatenation leaves there,    *)
(* record boundaries notwithstanding, and the call returns what decoding   *)
(* the concatenation returns.                                              *)
C11_UnfilteredStream ==
  (dec_arg.kind = "list" /\ o_id = None /\ pc \in {"dec_loop", "dec_done"})
    => LET all == DataFrom(dec_arg.list, 1)
       IN  /\ dec_data = all
           /\ Decoder = DecodeAll(SubSeq(all, 1, pos))
           /\ pc = "dec_done" => dec_ret \in AsArray(DecodeAll(all).plane2d)

\* three records, the first ending inside a code, the second inside the
\* end-of-line marker: one row of five transparent pixels comes back
C11_Witness ==
  /\ pc = "dec_done"
  /\ dec_arg.kind = "list"
  /\ o_id = None
  /\ Len(dec_arg.list) = 3
  /\ DecodeAll(dec_arg.list[1].data).decoder_state = "NEED_MORE"
  /\ DecodeAll(dec_arg.list[1].data \o dec_arg.list[2].data).decoder_state
       = "NEED_MORE"
  /\ dec_ret.kind = "array"
  /\ dec_ret.rows = <<Repeat(0, 5)>>

-----------------------------------------------------------------------------
(* C12: the decoder never rejects input.  For every byte string the loop   *)
(* reads every byte once and rests only in the automaton's states, and the *)
(* call returns the closed rows as they are, whatever their lengths: it    *)
(* raises nothing.                                                         *)
C12_NeverRejects ==
  /\ pc = "dec_loop"
       => /\ pos <= Len(dec_data)
          /\ decoder_state \in {"NEW_CODE", "NEED_MORE", "LARGE_TSP",
                                "SMALL_CCO", "LARGE_CCO"}
  /\ pc = "dec_done"
       => /\ pos = Len(dec_data)
          /\ dec_ret.kind # "ValueError"
          /\ dec_ret.rows = plane2d

-----------------------------------------------------------------------------
(* C13: long-form length packing.  Every emitted run of n >= 64 pixels has *)
(* n <= 16383 and is written as 00, then a byte whose top two bits are the *)
(* category (01 transparent, 11 color) and whose low six bits are n >> 8,  *)
(* then the byte n & FF (then the color, for a color run), so that         *)
(* ((second & 3F) << 8) | third = n; every byte appended is in 0..255 and  *)
(* no pass of the loop fails to build its bytes.                           *)
C13_LongLengthPacking ==
  [][/\ RunEmitted /\ i' - i >= 64
          => LET v == Fp(i)
                 n == i' - i
                 second == Appended[2]
                 third == Appended[3]
             IN  /\ n <= 16383
                 /\ Len(Appended) >= (IF v = 0 THEN 3 ELSE 4)
                 /\ \A j \in 1..Len(Appended) : Appended[j] \in 0..255
                 /\ Appended[1] = 0
                 /\ second \div 64 = (IF v = 0 THEN 1 ELSE 3)
                 /\ second % 64 = n \div 256
                 /\ third = n % 256
                 /\ (second % 64) * 256 + third = n
                 /\ v # 0 => Appended[4] = v
     /\ (pc = "enc_loop" /\ pc' = "enc_raised")
          => enc_ret'[Len(enc_ret')].kind # "ValueError"]_vars

\* the longest run a code can carry, as a color run: 00 FF FF 05
C13_Witness ==
  /\ pc = "enc_loop"
  /\ k = 16383
  /\ i = 16383
  /\ Len(rle_data) >= 4
  /\ SubSeq(rle_data, 1, 4) = <<0, 255, 255, 5>>

-----------------------------------------------------------------------------
(* C14: termination and exact consumption.  For every bitmap, every pass   *)
(* of encode_rle's while loop has advanced i by a run length k in 1..16383 *)
(* without passing the end of the flattened buffer, and when the loop has  *)
(* been left i is the total pixel count: the runs cover every pixel once.  *)
C14_ExactConsumption ==
  /\ (pc = "enc_loop" /\ i > 0) => (1 <= k /\ k <= 16383 /\ i <= FpSize)
  /\ pc \in {"enc_done", "enc_raised"} => (k >= 1 /\ i = FpSize)

-----------------------------------------------------------------------------
(* C15: closed rows are append-only.  A step of decode_rle changes plane2d *)
(* only by reading the byte 0 in NEED_MORE, which appends the current row  *)
(* buffer as the new last row, empties the buffer and returns to NEW_CODE; *)
(* every other step, the return included, leaves plane2d as it is, so no   *)
(* later byte modifies, reorders or removes a closed row.                  *)
C15_RowsAppendOnly ==
  [][pc = "dec_loop"
       => IF ByteRead /\ decoder_state = "NEED_MORE" /\ Byte = 0
          THEN /\ plane2d' = Append(plane2d, line_l)
               /\ line_l' = <<>>
               /\ decoder_state' = "NEW_CODE"
          ELSE plane2d' = plane2d]_vars

\* a row closed, and more bytes read after it
C15_Witness ==
  /\ pc = "dec_loop"
  /\ plane2d = <<<<5>>>>
  /\ line_l = <<5, 5>>
  /\ pos = 5

-----------------------------------------------------------------------------
(* C16: well-formed encoder output.  For every bitmap of h >= 1 rows and   *)
(* 1 <= width <= 16383, encode_rle returns a stream that ends with the     *)
(* end-of-line marker and that the decoder's automaton reads as exactly h  *)
(* closed rows (one end-of-line marker each) of exactly width pixels,      *)
(* finishing in NEW_CODE with an empty row buffer.                         *)
C16_WellFormedOutput ==
  (Height >= 1 /\ Width >= 1 /\ Width <= 16383)
    => /\ pc # "enc_raised"
       /\ pc = "enc_done"
            => LET out == LastEnc.bytes
                   d == DecodeAll(out)
               IN  /\ Len(out) >= 2
                   /\ SubSeq(out, Len(out) - 1, Len(out)) = LineEnd
                   /\ d.decoder_state = "NEW_CODE"
                   /\ d.line_l = <<>>
                   /\ Len(d.plane2d) = Height
                   /\ \A r \in 1..Len(d.plane2d) : Len(d.plane2d[r]) = Width

-----------------------------------------------------------------------------
\* values a finished code can leave in tmp, and values it cannot
LeftOvers == {-16383, -1, 0, 63, 16383}

(* C17: the accumulator.  Whenever decode_rle is about to read a byte,     *)
(* tmp is in 0..63 in LARGE_TSP and SMALL_CCO, and in LARGE_CCO it is in   *)
(* 0..63 (a length byte is awaited) or in -16383..-1 (the color is); no    *)
(* byte read appends more than 16383 pixels to the row buffer; and a byte  *)
(* read in NEW_CODE or NEED_MORE has the same effect whatever value an     *)
(* earlier code left in tmp, the states that read tmp being entered only   *)
(* with tmp freshly set from that byte.                                    *)
C17_Accumulator ==
  pc = "dec_loop"
    => /\ decoder_state \in {"LARGE_TSP", "SMALL_CCO"} => tmp \in 0..63
       /\ decoder_state = "LARGE_CCO" => (tmp \in 0..63 \/ tmp \in -16383..-1)
       /\ pos < Len(dec_data)
            => LET next == DecodeStep(Decoder, Byte)
               IN  /\ next.plane2d = plane2d
                        => Len(next.line_l) <= Len(line_l) + 16383
                   /\ decoder_state \in {"NEW_CODE", "NEED_MORE"}
                        => \A t \in LeftOvers :
                             LET other == DecodeStep([Decoder EXCEPT !.tmp = t], Byte)
                             IN  /\ other.decoder_state = next.decoder_state
                                 /\ other.line_l = next.line_l
                                 /\ other.plane2d = next.plane2d
                                 /\ next.decoder_state \in
                                      {"LARGE_TSP", "SMALL_CCO", "LARGE_CCO"}
                                      => other.tmp = next.tmp

\* the longest color run's length read, the color awaited
C17_Witness ==
  /\ pc = "dec_loop"
  /\ decoder_state = "LARGE_CCO"
  /\ tmp = -16383
  /\ pos < Len(dec_data)

-----------------------------------------------------------------------------
\* the positions of the end-of-line markers' second bytes: a 0 read in NEED_MORE
EolReads(bytes) ==
  { p \in 1..Len(bytes) :
      /\ bytes[p] = 0
      /\ DecodeAll(SubSeq(bytes, 1, p - 1)).decoder_state = "NEED_MORE" }

\* the stream up to its last end-of-line marker
Terminated(bytes) ==
  LET ps == EolReads(bytes)
  IN  IF ps = {} THEN <<>>
      ELSE SubSeq(bytes, 1, CHOOSE p \in ps : \A q \in ps : q <= p)

(* C18: unterminated data is dropped.  decode_rle raises nothing and its   *)
(* result has exactly one row for each end-of-line marker read (a 0 read   *)
(* in NEED_MORE): the rows are those of the stream cut after its last      *)
(* end-of-line marker, so the row buffer filled after that marker and a    *)
(* code left unfinished at the end of the stream are not in the output.    *)
C18_UnterminatedDropped ==
  pc = "dec_done"
    => /\ dec_ret.kind # "ValueError"
       /\ Len(dec_ret.rows) = Cardinality(EolReads(dec_data))
       /\ dec_ret.rows = DecodeAll(Terminated(dec_data)).plane2d

-----------------------------------------------------------------------------
\* the indices at which the for loop of the coming pass reads _fp on line 56:
\* i + k0 for every k0 it reaches whose row-end test on line 52 is false
Reads == { i + k0 : k0 \in { n \in 1..ForK.k : ~AtRowEnd(n) } }

(* C19: no out-of-range read in the run search.  For every bitmap, every   *)
(* index i + k at which a pass of the while loop reads the flattened       *)
(* buffer to compare it with the pixel at i is below the pixel count and   *)
(* in the row of i: never a pixel of the next row or past the buffer.      *)
C19_ReadsInRow ==
  (pc = "enc_loop" /\ i < FpSize /\ Len(shape) >= 2)
    => \A j \in Reads : /\ j < Height * Width
                        /\ j \div Width = i \div Width

\* a row of one value with the same value at the start of the next row: every
\* pixel of the row after the first is read, the next row's first pixel is not
C19_Witness ==
  /\ pc = "enc_loop"
  /\ Len(shape) >= 2
  /\ Height >= 2
  /\ Width >= 3
  /\ i = 0
  /\ Fp(Width) = Fp(0)
  /\ Reads = 1..(Width - 1)

====
